---- MODULE Spec2Model ----
(***************************************************************************)
(* Model of plot_benchmark.py: read_log (lines 19-44), plot (47-55) and    *)
(* main (58-71).                                                           *)
(*                                                                         *)
(* Text is modelled as sequences of one-character strings, so that         *)
(* str.strip, str.split, str.startswith and float() are computed on the    *)
(* characters the way CPython computes them.  Integers that do not fit 32  *)
(* bits (epoch seconds, powers of two) are decimal digit sequences, most   *)
(* significant digit first.                                                *)
(***************************************************************************)
EXTENDS Integers, Sequences, FiniteSets, TLC

(***************************************************************************)
(* Bounds of the model.                                                    *)
(***************************************************************************)
\* Largest number of lines in a log file.
MaxLines == 2
\* Largest len(sys.argv) tried.
MaxArgc == 4

(***************************************************************************)
(* Decimal digit sequences (arbitrary-precision naturals).                 *)
(***************************************************************************)
DigitChars == <<"0", "1", "2", "3", "4", "5", "6", "7", "8", "9">>

IsDigit(c) == \E i \in 1..10 : DigitChars[i] = c

DigitVal(c) == (CHOOSE i \in 1..10 : DigitChars[i] = c) - 1

RECURSIVE StripLeadingZeros(_)
\* canonical form of a natural: no leading zero, zero is <<>>
StripLeadingZeros(d) ==
    IF d = <<>> THEN <<>>
    ELSE IF Head(d) = 0 THEN StripLeadingZeros(Tail(d)) ELSE d

RECURSIVE StripTrailingZeros(_)
\* canonical form of a fraction: no trailing zero
StripTrailingZeros(d) ==
    IF d = <<>> THEN <<>>
    ELSE IF d[Len(d)] = 0 THEN StripTrailingZeros(SubSeq(d, 1, Len(d) - 1)) ELSE d

RECURSIVE LexLess(_, _)
\* lexicographic order on digit sequences of equal length
LexLess(a, b) ==
    IF a = <<>> THEN FALSE
    ELSE IF Head(a) # Head(b) THEN Head(a) < Head(b)
    ELSE LexLess(Tail(a), Tail(b))

\* a < b for canonical naturals
NatLess(a, b) ==
    IF Len(a) # Len(b) THEN Len(a) < Len(b) ELSE LexLess(a, b)

NatLeq(a, b) == a = b \/ NatLess(a, b)

RECURSIVE IncRec(_, _)
IncRec(d, i) ==
    IF i = 0 THEN <<1>> \o d
    ELSE IF d[i] = 9 THEN IncRec([d EXCEPT ![i] = 0], i - 1)
    ELSE [d EXCEPT ![i] = d[i] + 1]

\* d + 1
NatInc(d) == IncRec(d, Len(d))

RECURSIVE PadLeft(_, _)
PadLeft(d, n) == IF Len(d) >= n THEN d ELSE PadLeft(<<0>> \o d, n)

RECURSIVE PadRight(_, _)
PadRight(d, n) == IF Len(d) >= n THEN d ELSE PadRight(d \o <<0>>, n)

(***************************************************************************)
(* IEEE-754 binary64, as far as int(float(s)) can observe it.              *)
(***************************************************************************)
\* significand width of a double
MantBits == 53

\* 2^1 .. 2^53 in decimal
Pow2Tab == <<
    <<2>>,
    <<4>>,
    <<8>>,
    <<1, 6>>,
    <<3, 2>>,
    <<6, 4>>,
    <<1, 2, 8>>,
    <<2, 5, 6>>,
    <<5, 1, 2>>,
    <<1, 0, 2, 4>>,
    <<2, 0, 4, 8>>,
    <<4, 0, 9, 6>>,
    <<8, 1, 9, 2>>,
    <<1, 6, 3, 8, 4>>,
    <<3, 2, 7, 6, 8>>,
    <<6, 5, 5, 3, 6>>,
    <<1, 3, 1, 0, 7, 2>>,
    <<2, 6, 2, 1, 4, 4>>,
    <<5, 2, 4, 2, 8, 8>>,
    <<1, 0, 4, 8, 5, 7, 6>>,
    <<2, 0, 9, 7, 1, 5, 2>>,
    <<4, 1, 9, 4, 3, 0, 4>>,
    <<8, 3, 8, 8, 6, 0, 8>>,
    <<1, 6, 7, 7, 7, 2, 1, 6>>,
    <<3, 3, 5, 5, 4, 4, 3, 2>>,
    <<6, 7, 1, 0, 8, 8, 6, 4>>,
    <<1, 3, 4, 2, 1, 7, 7, 2, 8>>,
    <<2, 6, 8, 4, 3, 5, 4, 5, 6>>,
    <<5, 3, 6, 8, 7, 0, 9, 1, 2>>,
    <<1, 0, 7, 3, 7, 4, 1, 8, 2, 4>>,
    <<2, 1, 4, 7, 4, 8, 3, 6, 4, 8>>,
    <<4, 2, 9, 4, 9, 6, 7, 2, 9, 6>>,
    <<8, 5, 8, 9, 9, 3, 4, 5, 9, 2>>,
    <<1, 7, 1, 7, 9, 8, 6, 9, 1, 8, 4>>,
    <<3, 4, 3, 5, 9, 7, 3, 8, 3, 6, 8>>,
    <<6, 8, 7, 1, 9, 4, 7, 6, 7, 3, 6>>,
    <<1, 3, 7, 4, 3, 8, 9, 5, 3, 4, 7, 2>>,
    <<2, 7, 4, 8, 7, 7, 9, 0, 6, 9, 4, 4>>,
    <<5, 4, 9, 7, 5, 5, 8, 1, 3, 8, 8, 8>>,
    <<1, 0, 9, 9, 5, 1, 1, 6, 2, 7, 7, 7, 6>>,
    <<2, 1, 9, 9, 0, 2, 3, 2, 5, 5, 5, 5, 2>>,
    <<4, 3, 9, 8, 0, 4, 6, 5, 1, 1, 1, 0, 4>>,
    <<8, 7, 9, 6, 0, 9, 3, 0, 2, 2, 2, 0, 8>>,
    <<1, 7, 5, 9, 2, 1, 8, 6, 0, 4, 4, 4, 1, 6>>,
    <<3, 5, 1, 8, 4, 3, 7, 2, 0, 8, 8, 8, 3, 2>>,
    <<7, 0, 3, 6, 8, 7, 4, 4, 1, 7, 7, 6, 6, 4>>,
    <<1, 4, 0, 7, 3, 7, 4, 8, 8, 3, 5, 5, 3, 2, 8>>,
    <<2, 8, 1, 4, 7, 4, 9, 7, 6, 7, 1, 0, 6, 5, 6>>,
    <<5, 6, 2, 9, 4, 9, 9, 5, 3, 4, 2, 1, 3, 1, 2>>,
    <<1, 1, 2, 5, 8, 9, 9, 9, 0, 6, 8, 4, 2, 6, 2, 4>>,
    <<2, 2, 5, 1, 7, 9, 9, 8, 1, 3, 6, 8, 5, 2, 4, 8>>,
    <<4, 5, 0, 3, 5, 9, 9, 6, 2, 7, 3, 7, 0, 4, 9, 6>>,
    <<9, 0, 0, 7, 1, 9, 9, 2, 5, 4, 7, 4, 0, 9, 9, 2>>
>>

Pow2(e) == IF e = 0 THEN <<1>> ELSE Pow2Tab[e]

\* 5^1 .. 5^54 in decimal
Pow5Tab == <<
    <<5>>,
    <<2, 5>>,
    <<1, 2, 5>>,
    <<6, 2, 5>>,
    <<3, 1, 2, 5>>,
    <<1, 5, 6, 2, 5>>,
    <<7, 8, 1, 2, 5>>,
    <<3, 9, 0, 6, 2, 5>>,
    <<1, 9, 5, 3, 1, 2, 5>>,
    <<9, 7, 6, 5, 6, 2, 5>>,
    <<4, 8, 8, 2, 8, 1, 2, 5>>,
    <<2, 4, 4, 1, 4, 0, 6, 2, 5>>,
    <<1, 2, 2, 0, 7, 0, 3, 1, 2, 5>>,
    <<6, 1, 0, 3, 5, 1, 5, 6, 2, 5>>,
    <<3, 0, 5, 1, 7, 5, 7, 8, 1, 2, 5>>,
    <<1, 5, 2, 5, 8, 7, 8, 9, 0, 6, 2, 5>>,
    <<7, 6, 2, 9, 3, 9, 4, 5, 3, 1, 2, 5>>,
    <<3, 8, 1, 4, 6, 9, 7, 2, 6, 5, 6, 2, 5>>,
    <<1, 9, 0, 7, 3, 4, 8, 6, 3, 2, 8, 1, 2, 5>>,
    <<9, 5, 3, 6, 7, 4, 3, 1, 6, 4, 0, 6, 2, 5>>,
    <<4, 7, 6, 8, 3, 7, 1, 5, 8, 2, 0, 3, 1, 2, 5>>,
    <<2, 3, 8, 4, 1, 8, 5, 7, 9, 1, 0, 1, 5, 6, 2, 5>>,
    <<1, 1, 9, 2, 0, 9, 2, 8, 9, 5, 5, 0, 7, 8, 1, 2, 5>>,
    <<5, 9, 6, 0, 4, 6, 4, 4, 7, 7, 5, 3, 9, 0, 6, 2, 5>>,
    <<2, 9, 8, 0, 2, 3, 2, 2, 3, 8, 7, 6, 9, 5, 3, 1, 2, 5>>,
    <<1, 4, 9, 0, 1, 1, 6, 1, 1, 9, 3, 8, 4, 7, 6, 5, 6, 2, 5>>,
    <<7, 4, 5, 0, 5, 8, 0, 5, 9, 6, 9, 2, 3, 8, 2, 8, 1, 2, 5>>,
    <<3, 7, 2, 5, 2, 9, 0, 2, 9, 8, 4, 6, 1, 9, 1, 4, 0, 6, 2, 5>>,
    <<1, 8, 6, 2, 6, 4, 5, 1, 4, 9, 2, 3, 0, 9, 5, 7, 0, 3, 1, 2, 5>>,
    <<9, 3, 1, 3, 2, 2, 5, 7, 4, 6, 1, 5, 4, 7, 8, 5, 1, 5, 6, 2, 5>>,
    <<4, 6, 5, 6, 6, 1, 2, 8, 7, 3, 0, 7, 7, 3, 9, 2, 5, 7, 8, 1, 2, 5>>,
    <<2, 3, 2, 8, 3, 0, 6, 4, 3, 6, 5, 3, 8, 6, 9, 6, 2, 8, 9, 0, 6, 2, 5>>,
    <<1, 1, 6, 4, 1, 5, 3, 2, 1, 8, 2, 6, 9, 3, 4, 8, 1, 4, 4, 5, 3, 1, 2, 5>>,
    <<5, 8, 2, 0, 7, 6, 6, 0, 9, 1, 3, 4, 6, 7, 4, 0, 7, 2, 2, 6, 5, 6, 2, 5>>,
    <<2, 9, 1, 0, 3, 8, 3, 0, 4, 5, 6, 7, 3, 3, 7, 0, 3, 6, 1, 3, 2, 8, 1, 2, 5>>,
    <<1, 4, 5, 5, 1, 9, 1, 5, 2, 2, 8, 3, 6, 6, 8, 5, 1, 8, 0, 6, 6, 4, 0, 6, 2, 5>>,
    <<7, 2, 7, 5, 9, 5, 7, 6, 1, 4, 1, 8, 3, 4, 2, 5, 9, 0, 3, 3, 2, 0, 3, 1, 2, 5>>,
    <<3, 6, 3, 7, 9, 7, 8, 8, 0, 7, 0, 9, 1, 7, 1, 2, 9, 5, 1, 6, 6, 0, 1, 5, 6, 2, 5>>,
    <<1, 8, 1, 8, 9, 8, 9, 4, 0, 3, 5, 4, 5, 8, 5, 6, 4, 7, 5, 8, 3, 0, 0, 7, 8, 1, 2, 5>>,
    <<9, 0, 9, 4, 9, 4, 7, 0, 1, 7, 7, 2, 9, 2, 8, 2, 3, 7, 9, 1, 5, 0, 3, 9, 0, 6, 2, 5>>,
    <<4, 5, 4, 7, 4, 7, 3, 5, 0, 8, 8, 6, 4, 6, 4, 1, 1, 8, 9, 5, 7, 5, 1, 9, 5, 3, 1, 2, 5>>,
    <<2, 2, 7, 3, 7, 3, 6, 7, 5, 4, 4, 3, 2, 3, 2, 0, 5, 9, 4, 7, 8, 7, 5, 9, 7, 6, 5, 6, 2, 5>>,
    <<1, 1, 3, 6, 8, 6, 8, 3, 7, 7, 2, 1, 6, 1, 6, 0, 2, 9, 7, 3, 9, 3, 7, 9, 8, 8, 2, 8, 1, 2, 5>>,
    <<5, 6, 8, 4, 3, 4, 1, 8, 8, 6, 0, 8, 0, 8, 0, 1, 4, 8, 6, 9, 6, 8, 9, 9, 4, 1, 4, 0, 6, 2, 5>>,
    <<2, 8, 4, 2, 1, 7, 0, 9, 4, 3, 0, 4, 0, 4, 0, 0, 7, 4, 3, 4, 8, 4, 4, 9, 7, 0, 7, 0, 3, 1, 2, 5>>,
    <<1, 4, 2, 1, 0, 8, 5, 4, 7, 1, 5, 2, 0, 2, 0, 0, 3, 7, 1, 7, 4, 2, 2, 4, 8, 5, 3, 5, 1, 5, 6, 2, 5>>,
    <<7, 1, 0, 5, 4, 2, 7, 3, 5, 7, 6, 0, 1, 0, 0, 1, 8, 5, 8, 7, 1, 1, 2, 4, 2, 6, 7, 5, 7, 8, 1, 2, 5>>,
    <<3, 5, 5, 2, 7, 1, 3, 6, 7, 8, 8, 0, 0, 5, 0, 0, 9, 2, 9, 3, 5, 5, 6, 2, 1, 3, 3, 7, 8, 9, 0, 6, 2, 5>>,
    <<1, 7, 7, 6, 3, 5, 6, 8, 3, 9, 4, 0, 0, 2, 5, 0, 4, 6, 4, 6, 7, 7, 8, 1, 0, 6, 6, 8, 9, 4, 5, 3, 1, 2, 5>>,
    <<8, 8, 8, 1, 7, 8, 4, 1, 9, 7, 0, 0, 1, 2, 5, 2, 3, 2, 3, 3, 8, 9, 0, 5, 3, 3, 4, 4, 7, 2, 6, 5, 6, 2, 5>>,
    <<4, 4, 4, 0, 8, 9, 2, 0, 9, 8, 5, 0, 0, 6, 2, 6, 1, 6, 1, 6, 9, 4, 5, 2, 6, 6, 7, 2, 3, 6, 3, 2, 8, 1, 2, 5>>,
    <<2, 2, 2, 0, 4, 4, 6, 0, 4, 9, 2, 5, 0, 3, 1, 3, 0, 8, 0, 8, 4, 7, 2, 6, 3, 3, 3, 6, 1, 8, 1, 6, 4, 0, 6, 2, 5>>,
    <<1, 1, 1, 0, 2, 2, 3, 0, 2, 4, 6, 2, 5, 1, 5, 6, 5, 4, 0, 4, 2, 3, 6, 3, 1, 6, 6, 8, 0, 9, 0, 8, 2, 0, 3, 1, 2, 5>>,
    <<5, 5, 5, 1, 1, 1, 5, 1, 2, 3, 1, 2, 5, 7, 8, 2, 7, 0, 2, 1, 1, 8, 1, 5, 8, 3, 4, 0, 4, 5, 4, 1, 0, 1, 5, 6, 2, 5>>
>>

Pow5(k) == Pow5Tab[k]

\* floor(log2 w) for a canonical natural 1 <= w < 2^53
Exponent(w) == CHOOSE ex \in 0..(MantBits - 1) :
                   NatLeq(Pow2(ex), w) /\ NatLess(w, Pow2(ex + 1))

\* The k decimal digits of 1 - 2^-k = (10^k - 5^k) / 10^k.  5^k ends in 5,
\* so the subtraction borrows in every position but the last.
OneMinusPow2(k) ==
    LET pow5 == PadLeft(Pow5(k), k)
    IN  [i \in 1..k |-> IF i = k THEN 10 - pow5[i] ELSE 9 - pow5[i]]

\* Does the decimal w.f round (to nearest, ties to even) to the double w+1?
\* Doubles in [2^e, 2^(e+1)) are 2^(e-52) apart, so w.f rounds to w+1 exactly
\* when f >= 1 - 2^(e-53); below 1 the spacing is 2^-53 and the bound is
\* 1 - 2^-54.  From 2^52 on every double is an integer.
RoundsUp(w, f) ==
    IF f = <<>> \/ ~NatLess(w, Pow2(MantBits - 1)) THEN FALSE
    ELSE LET bits  == IF w = <<>> THEN MantBits + 1 ELSE MantBits - Exponent(w)
             width == IF Len(f) > bits THEN Len(f) ELSE bits
         IN  ~LexLess(PadRight(f, width), PadRight(OneMinusPow2(bits), width))

(***************************************************************************)
(* float(), int() and datetime.utcfromtimestamp() (lines 36, 37, 41).      *)
(*                                                                         *)
(* A double is [k, neg, w, f]: k is "fin", "inf" or "nan"; a finite value  *)
(* is (-1)^neg * w.f with w a canonical natural and f the fraction digits. *)
(* float() is modelled on the literals [sign] digits [. digits],           *)
(* [sign] . digits, [sign] inf, [sign] infinity and [sign] nan; exponents  *)
(* and digit-group underscores are spelled by no line of the model.  The   *)
(* fraction of a value that does not round to an integer is kept as        *)
(* written: only its integer part is ever read back.                       *)
(***************************************************************************)
NoValue == [k |-> "none", neg |-> FALSE, w |-> <<>>, f |-> <<>>]

InfLiteral == <<"i", "n", "f">>

InfinityLiteral == <<"i", "n", "f", "i", "n", "i", "t", "y">>

NanLiteral == <<"n", "a", "n">>

\* largest number of decimal digits of a finite double's integer part
MaxDoubleDigits == 309

\* float(tok): [exc, val]
FloatOf(tok) ==
    LET signed  == tok # <<>> /\ tok[1] \in {"+", "-"}
        negative == signed /\ tok[1] = "-"
        body    == IF signed THEN Tail(tok) ELSE tok
        dots    == {i \in 1..Len(body) : body[i] = "."}
        dot     == IF dots = {} THEN Len(body) + 1 ELSE CHOOSE i \in dots : TRUE
        wellFormed ==
            /\ Cardinality(dots) <= 1
            /\ \A i \in 1..Len(body) : i \in dots \/ IsDigit(body[i])
            /\ Len(body) > Cardinality(dots)
        whole   == StripLeadingZeros([i \in 1..(dot - 1) |-> DigitVal(body[i])])
        frac    == StripTrailingZeros(
                       [i \in 1..(Len(body) - dot) |-> DigitVal(body[dot + i])])
    IN  IF body \in {InfLiteral, InfinityLiteral}
        THEN [exc |-> "none", val |-> [NoValue EXCEPT !.k = "inf", !.neg = negative]]
        ELSE IF body = NanLiteral
        THEN [exc |-> "none", val |-> [NoValue EXCEPT !.k = "nan", !.neg = negative]]
        ELSE IF ~wellFormed
        THEN [exc |-> "ValueError", val |-> NoValue]
        ELSE IF Len(whole) > MaxDoubleDigits
        THEN [exc |-> "none", val |-> [NoValue EXCEPT !.k = "inf", !.neg = negative]]
        ELSE IF RoundsUp(whole, frac)
        THEN [exc |-> "none",
              val |-> [k |-> "fin", neg |-> negative, w |-> NatInc(whole), f |-> <<>>]]
        ELSE [exc |-> "none",
              val |-> [k |-> "fin", neg |-> negative, w |-> whole, f |-> frac]]

\* An integer is [neg, w]; zero has no sign.
NoInt == [neg |-> FALSE, w |-> <<>>]

\* int(x) for a double x: [exc, val].  Truncates toward zero.
IntOf(x) ==
    IF x.k = "inf" THEN [exc |-> "OverflowError", val |-> NoInt]
    ELSE IF x.k = "nan" THEN [exc |-> "ValueError", val |-> NoInt]
    ELSE [exc |-> "none", val |-> [neg |-> x.neg /\ x.w # <<>>, w |-> x.w]]

\* 9999-12-31 23:59:59 UTC, datetime.max
TimestampMax == <<2, 5, 3, 4, 0, 2, 3, 0, 0, 7, 9, 9>>

\* magnitude of 0001-01-01 00:00:00 UTC, datetime.min
TimestampMin == <<6, 2, 1, 3, 5, 5, 9, 6, 8, 0, 0>>

\* 2^63, the first magnitude a 64-bit time_t cannot hold
TimeTLimit == <<9, 2, 2, 3, 3, 7, 2, 0, 3, 6, 8, 5, 4, 7, 7, 5, 8, 0, 8>>

\* Can utcfromtimestamp(n) build a datetime?
InDatetimeRange(n) ==
    IF n.neg THEN NatLeq(n.w, TimestampMin) ELSE NatLeq(n.w, TimestampMax)

\* The exceptions utcfromtimestamp(n) can raise: none inside the datetime
\* range; outside it OverflowError when n does not fit time_t, and otherwise
\* ValueError or OSError, whichever the platform's gmtime leads to.
UtcExceptions(n) ==
    IF InDatetimeRange(n) THEN {}
    ELSE IF ~NatLess(n.w, TimeTLimit) THEN {"OverflowError"}
    ELSE {"ValueError", "OSError"}

\* datetime.utcfromtimestamp(n) for n in range.  A naive UTC datetime of
\* whole seconds and its count of seconds since 1970 determine each other,
\* so the datetime is represented by that count.
UtcFromTimestamp(n) == [utc |-> n]

(***************************************************************************)
(* str.strip(), str.startswith() and str.split() (lines 25, 28, 31).       *)
(***************************************************************************)
Whitespace == {" ", "\t", "\n"}

RECURSIVE LStrip(_)
LStrip(s) ==
    IF s = <<>> THEN <<>>
    ELSE IF Head(s) \in Whitespace THEN LStrip(Tail(s)) ELSE s

RECURSIVE RStrip(_)
RStrip(s) ==
    IF s = <<>> THEN <<>>
    ELSE IF s[Len(s)] \in Whitespace THEN RStrip(SubSeq(s, 1, Len(s) - 1)) ELSE s

Strip(s) == RStrip(LStrip(s))

StartsWith(s, prefix) ==
    Len(s) >= Len(prefix) /\ SubSeq(s, 1, Len(prefix)) = prefix

RECURSIVE SplitRec(_, _, _)
\* cur is the field being read, acc the fields already complete
SplitRec(s, cur, acc) ==
    IF s = <<>> THEN (IF cur = <<>> THEN acc ELSE Append(acc, cur))
    ELSE IF Head(s) \in Whitespace
         THEN SplitRec(Tail(s), <<>>, IF cur = <<>> THEN acc ELSE Append(acc, cur))
         ELSE SplitRec(Tail(s), Append(cur, Head(s)), acc)

\* s.split(): the maximal runs of non-whitespace characters
Split(s) == SplitRec(s, <<>>, <<>>)

MonitorStart == <<"m", "o", "n", "i", "t", "o", "r", " ", "s", "t", "a", "r", "t">>

IostatTag == <<"[", "i", "o", "s", "t", "a", "t", "]">>

(***************************************************************************)
(* The log files of the model: up to MaxLines lines, each one of LineSet.  *)
(***************************************************************************)
LineSet == {
    \* \n: blank line
    <<"\n">>,
    \* monitor start 1700000000 x 12.5\n: sentinel with a numeric tail
    <<"m", "o", "n", "i", "t", "o", "r", " ", "s", "t", "a", "r", "t", " ", "1", "7", "0", "0", "0", "0", "0", "0", "0", "0", " ", "x", " ", "1", "2", ".", "5", "\n">>,
    \* [iostat] 5 1.0\n: sentinel
    <<"[", "i", "o", "s", "t", "a", "t", "]", " ", "5", " ", "1", ".", "0", "\n">>,
    \* 1700000000 x 12.5\n: sample
    <<"1", "7", "0", "0", "0", "0", "0", "0", "0", "0", " ", "x", " ", "1", "2", ".", "5", "\n">>,
    \* 1700000060 x 13.0\n: sample
    <<"1", "7", "0", "0", "0", "0", "0", "0", "6", "0", " ", "x", " ", "1", "3", ".", "0", "\n">>,
    \* 1700000000 y 12.5 z\n: same fields 0 and 2, other field 1, a 4th field
    <<"1", "7", "0", "0", "0", "0", "0", "0", "0", "0", " ", "y", " ", "1", "2", ".", "5", " ", "z", "\n">>,
    \*  1700000060\tx  13.0 \n: same sample, other whitespace
    <<" ", "1", "7", "0", "0", "0", "0", "0", "0", "6", "0", "\t", "x", " ", " ", "1", "3", ".", "0", " ", "\n">>,
    \* 1600000000 x 2.0\n: an earlier time
    <<"1", "6", "0", "0", "0", "0", "0", "0", "0", "0", " ", "x", " ", "2", ".", "0", "\n">>,
    \* 1700000000 x\n: two fields
    <<"1", "7", "0", "0", "0", "0", "0", "0", "0", "0", " ", "x", "\n">>,
    \* abc x 1.0\n: field 0 is no number
    <<"a", "b", "c", " ", "x", " ", "1", ".", "0", "\n">>,
    \* 1700000000 x fast\n: field 2 is no number
    <<"1", "7", "0", "0", "0", "0", "0", "0", "0", "0", " ", "x", " ", "f", "a", "s", "t", "\n">>,
    \* inf x 1.0\n: field 0 infinite
    <<"i", "n", "f", " ", "x", " ", "1", ".", "0", "\n">>,
    \* nan x 1.0\n: field 0 not-a-number
    <<"n", "a", "n", " ", "x", " ", "1", ".", "0", "\n">>,
    \* 1700000000 x inf\n: field 2 infinite
    <<"1", "7", "0", "0", "0", "0", "0", "0", "0", "0", " ", "x", " ", "i", "n", "f", "\n">>,
    \* 1700000000 x nan\n: field 2 not-a-number
    <<"1", "7", "0", "0", "0", "0", "0", "0", "0", "0", " ", "x", " ", "n", "a", "n", "\n">>,
    \* 1700000000 x -5.0\n: negative speed
    <<"1", "7", "0", "0", "0", "0", "0", "0", "0", "0", " ", "x", " ", "-", "5", ".", "0", "\n">>,
    \* 9999999999999 x 1.0\n: epoch after year 9999
    <<"9", "9", "9", "9", "9", "9", "9", "9", "9", "9", "9", "9", "9", " ", "x", " ", "1", ".", "0", "\n">>,
    \* 1699999999.9999999 x 1.0\n: fraction within half a double spacing of 1
    <<"1", "6", "9", "9", "9", "9", "9", "9", "9", "9", ".", "9", "9", "9", "9", "9", "9", "9", " ", "x", " ", "1", ".", "0", "\n">>,
    \* 1699999999.5 x 1.0\n: fractional epoch
    <<"1", "6", "9", "9", "9", "9", "9", "9", "9", "9", ".", "5", " ", "x", " ", "1", ".", "0", "\n">>,
    \* -1.5 x 1.0\n: negative fractional epoch
    <<"-", "1", ".", "5", " ", "x", " ", "1", ".", "0", "\n">>
}

Files == UNION {[1..n -> LineSet] : n \in 0..MaxLines}

(***************************************************************************)
(* read_log, one iteration of the loop body (lines 25-42).                 *)
(***************************************************************************)
NoTime == UtcFromTimestamp(NoInt)

SkipLine == [kind |-> "skip", excs |-> {}, at |-> "none", t |-> NoTime, v |-> NoValue]

RaiseFrom(kinds, place) ==
    [kind |-> "raise", excs |-> kinds, at |-> place, t |-> NoTime, v |-> NoValue]

\* What the loop body does with the raw line: skip it (continue), append one
\* sample, or let an exception leave the loop.  Only ValueError is caught,
\* and only around int(float(parts[0])) and float(parts[2]).
LineOutcome(raw) ==
    LET line   == Strip(raw)
        parts  == Split(line)
        field0 == FloatOf(parts[1])
        epoch  == IntOf(field0.val)
        speed  == FloatOf(parts[3])
    IN  IF line = <<>> THEN SkipLine
        ELSE IF StartsWith(line, MonitorStart) \/ StartsWith(line, IostatTag)
        THEN SkipLine
        ELSE IF Len(parts) < 3 THEN SkipLine
        ELSE IF field0.exc = "ValueError" THEN SkipLine
        ELSE IF epoch.exc = "ValueError" THEN SkipLine
        ELSE IF epoch.exc # "none" THEN RaiseFrom({epoch.exc}, "int")
        ELSE IF speed.exc = "ValueError" THEN SkipLine
        ELSE IF UtcExceptions(epoch.val) # {}
        THEN RaiseFrom(UtcExceptions(epoch.val), "utcfromtimestamp")
        ELSE [kind |-> "sample", excs |-> {}, at |-> "none",
              t |-> UtcFromTimestamp(epoch.val), v |-> speed.val]

\* ts.append(datetime.utcfromtimestamp(epoch))
NextTs(tsq, r) == Append(tsq, r.t)

\* Variant: a not-a-number speed is dropped after its timestamp was appended.
NextMbps_dropNan(mq, r) == IF r.v.k = "nan" THEN mq ELSE Append(mq, r.v)

\* mbps.append(speed)
NextMbps(mq, r) == Append(mq, r.v)

\* Variant: open without with; the file is closed by nobody.
WithExit_leak(isOpen) == isOpen

\* the with statement leaving its block, normally or by an exception
WithExit(isOpen) == FALSE

(***************************************************************************)
(* main (lines 58-71).                                                     *)
(***************************************************************************)
UsageMsg == "Usage: <prog> <log-file> <output.jpg>"

NoDataMsg == "No data points found."

WroteMsg == "Wrote <out_path>"

\* Variant: only too few arguments are a usage error.
ArgsOk_atLeast(n) == n >= 3

\* len(sys.argv) != 3 is the usage error
ArgsOk(n) == n = 3

\* not ts
IsEmpty(tsq) == tsq = <<>>

\* print(..., file=sys.stderr) of the usage error
UsageOutput(out, err) == [out |-> out, err |-> Append(err, UsageMsg)]

\* Variant: the no-data message is printed without file=sys.stderr.
NoDataOutput_toStdout(out, err) == [out |-> Append(out, NoDataMsg), err |-> err]

\* print("No data points found.", file=sys.stderr)
NoDataOutput(out, err) == [out |-> out, err |-> Append(err, NoDataMsg)]

\* print(f"Wrote {out_path}")
WroteOutput(out, err) == [out |-> Append(out, WroteMsg), err |-> err]

\* Variant: the two sequences are passed in the wrong order.
PlotArgs_swapped(tsq, mq) == [ts |-> mq, mbps |-> tsq]

\* the series main hands to plot
PlotArgs(tsq, mq) == [ts |-> tsq, mbps |-> mq]

\* Variant: a failure of plot is swallowed and main goes on.
AfterPlot_swallow(failed) == "print"

\* where main continues after the call of plot: nothing catches an exception
AfterPlot(failed) == IF failed THEN "raised" ELSE "print"

NoExc == [kind |-> "none", at |-> "none"]

VARIABLES
    argc,        \* len(sys.argv)
    file,        \* the lines of the log file
    pc,          \* main, open, loop, check, plot, print, exit, raised
    returns,     \* the values main has returned
    exc,         \* the exception that left main, and the call that raised it
    stdout,      \* messages printed to sys.stdout
    stderr,      \* messages printed to sys.stderr
    fileOpen,    \* the log file is open
    opens,       \* calls of open
    lineNo,      \* lines the loop has consumed
    ts,          \* read_log's ts
    mbps,        \* read_log's mbps
    tsSrc,       \* history: the line each element of ts was appended for
    mbpsSrc,     \* history: the line each element of mbps was appended for
    readResult,  \* history: what read_log returned, once it has
    mainTs,      \* main's ts
    mainMbps,    \* main's mbps
    plotCalls,   \* calls of plot
    plotted,     \* the series plot received
    outFile      \* savefig has written the output path

vars == <<argc, file, pc, returns, exc, stdout, stderr, fileOpen, opens, lineNo,
          ts, mbps, tsSrc, mbpsSrc, readResult, mainTs, mainMbps, plotCalls,
          plotted, outFile>>

io == <<stdout, stderr>>

reader == <<fileOpen, opens, lineNo, ts, mbps, tsSrc, mbpsSrc, readResult>>

series == <<mainTs, mainMbps>>

render == <<plotCalls, plotted, outFile>>

Init ==
    /\ argc \in 1..MaxArgc
    /\ file \in Files
    /\ pc = "main"
    /\ returns = <<>>
    /\ exc = NoExc
    /\ stdout = <<>>
    /\ stderr = <<>>
    /\ fileOpen = FALSE
    /\ opens = 0
    /\ lineNo = 0
    /\ ts = <<>>
    /\ mbps = <<>>
    /\ tsSrc = <<>>
    /\ mbpsSrc = <<>>
    /\ readResult = <<>>
    /\ mainTs = <<>>
    /\ mainMbps = <<>>
    /\ plotCalls = 0
    /\ plotted = <<>>
    /\ outFile = FALSE

\* lines 59-61
CheckArgs ==
    /\ pc = "main"
    /\ IF ArgsOk(argc)
       THEN /\ pc' = "open"
            /\ UNCHANGED <<returns, io>>
       ELSE /\ stdout' = UsageOutput(stdout, stderr).out
            /\ stderr' = UsageOutput(stdout, stderr).err
            /\ returns' = Append(returns, 1)
            /\ pc' = "exit"
    /\ UNCHANGED <<argc, file, exc, reader, series, render>>

\* lines 20-23: open succeeds
OpenLog ==
    /\ pc = "open"
    /\ opens' = opens + 1
    /\ fileOpen' = TRUE
    /\ pc' = "loop"
    /\ UNCHANGED <<argc, file, returns, exc, io, lineNo, ts, mbps, tsSrc, mbpsSrc,
                   readResult, series, render>>

\* line 23: open raises (no such file, no permission); nothing catches it
OpenFails ==
    /\ pc = "open"
    /\ opens' = opens + 1
    /\ exc' = [kind |-> "OSError", at |-> "open"]
    /\ pc' = "raised"
    /\ UNCHANGED <<argc, file, returns, io, fileOpen, lineNo, ts, mbps, tsSrc,
                   mbpsSrc, readResult, series, render>>

\* lines 24-42: the loop body for the next line
ReadLine ==
    /\ pc = "loop"
    /\ lineNo < Len(file)
    /\ LET r == LineOutcome(file[lineNo + 1])
       IN  /\ lineNo' = lineNo + 1
           /\ ts' = IF r.kind = "sample" THEN NextTs(ts, r) ELSE ts
           /\ mbps' = IF r.kind = "sample" THEN NextMbps(mbps, r) ELSE mbps
           /\ tsSrc' = IF Len(ts') > Len(ts) THEN Append(tsSrc, lineNo + 1) ELSE tsSrc
           /\ mbpsSrc' = IF Len(mbps') > Len(mbps) THEN Append(mbpsSrc, lineNo + 1)
                         ELSE mbpsSrc
           /\ IF r.kind = "raise"
              THEN /\ \E raisedKind \in r.excs :
                          exc' = [kind |-> raisedKind, at |-> r.at]
                   /\ fileOpen' = WithExit(fileOpen)
                   /\ pc' = "raised"
              ELSE UNCHANGED <<exc, fileOpen, pc>>
    /\ UNCHANGED <<argc, file, returns, io, opens, readResult, series, render>>

\* line 24: reading the file fails (an I/O error, undecodable bytes)
ReadFails ==
    /\ pc = "loop"
    /\ exc' = [kind |-> "OSError", at |-> "iter"]
    /\ fileOpen' = WithExit(fileOpen)
    /\ pc' = "raised"
    /\ UNCHANGED <<argc, file, returns, io, opens, lineNo, ts, mbps, tsSrc,
                   mbpsSrc, readResult, series, render>>

\* lines 24, 44 and 64: end of file, the with block ends, read_log returns
ReadReturn ==
    /\ pc = "loop"
    /\ lineNo = Len(file)
    /\ fileOpen' = WithExit(fileOpen)
    /\ readResult' = <<[ts |-> ts, mbps |-> mbps, src |-> tsSrc]>>
    /\ mainTs' = ts
    /\ mainMbps' = mbps
    /\ pc' = "check"
    /\ UNCHANGED <<argc, file, returns, exc, io, opens, lineNo, ts, mbps, tsSrc,
                   mbpsSrc, render>>

\* lines 65-67
CheckEmpty ==
    /\ pc = "check"
    /\ IF IsEmpty(mainTs)
       THEN /\ stdout' = NoDataOutput(stdout, stderr).out
            /\ stderr' = NoDataOutput(stdout, stderr).err
            /\ returns' = Append(returns, 1)
            /\ pc' = "exit"
       ELSE /\ pc' = "plot"
            /\ UNCHANGED <<returns, io>>
    /\ UNCHANGED <<argc, file, exc, reader, series, render>>

\* lines 69 and 48-55: plot draws and saves
Plot ==
    /\ pc = "plot"
    /\ plotCalls' = plotCalls + 1
    /\ plotted' = Append(plotted, PlotArgs(mainTs, mainMbps))
    /\ outFile' = TRUE
    /\ pc' = AfterPlot(FALSE)
    /\ UNCHANGED <<argc, file, returns, exc, io, reader, series>>

\* lines 69 and 48-55: plot raises (savefig cannot write the path); the
\* output file may or may not have been created
PlotFails ==
    /\ pc = "plot"
    /\ plotCalls' = plotCalls + 1
    /\ plotted' = Append(plotted, PlotArgs(mainTs, mainMbps))
    /\ \E created \in BOOLEAN : outFile' = created
    /\ exc' = [kind |-> "OSError", at |-> "plot"]
    /\ pc' = AfterPlot(TRUE)
    /\ UNCHANGED <<argc, file, returns, io, reader, series>>

\* lines 70-71
PrintWrote ==
    /\ pc = "print"
    /\ stdout' = WroteOutput(stdout, stderr).out
    /\ stderr' = WroteOutput(stdout, stderr).err
    /\ returns' = Append(returns, 0)
    /\ pc' = "exit"
    /\ UNCHANGED <<argc, file, exc, reader, series, render>>

Next ==
    \/ CheckArgs
    \/ OpenLog
    \/ OpenFails
    \/ ReadLine
    \/ ReadFails
    \/ ReadReturn
    \/ CheckEmpty
    \/ Plot
    \/ PlotFails
    \/ PrintWrote

Spec == Init /\ [][Next]_vars

(***************************************************************************)
(* Vocabulary of the properties.                                           *)
(***************************************************************************)
\* read_log was left by an exception that the content of a line caused
RaisedOnContent == exc.at \in {"int", "utcfromtimestamp"}

\* read_log has returned
ReadReturned == readResult # <<>>

\* field number idx (counted from 0) of a raw line
Field(raw, idx) == Split(raw)[idx + 1]

\* tok parses as a number: float(tok) accepts it
ParsesAsNumber(tok) == FloatOf(tok).exc = "none"

\* a line with 3 or more fields whose field[0] and field[2] parse as numbers
NumericLine(raw) ==
    /\ Len(Split(raw)) >= 3
    /\ ParsesAsNumber(Field(raw, 0))
    /\ ParsesAsNumber(Field(raw, 2))

\* the numbers of the lines of the file that satisfy Keep(_), ascending
RECURSIVE LinesWhere(_, _, _)
LinesWhere(Keep(_), lines, upto) ==
    IF upto = 0 THEN <<>>
    ELSE IF Keep(lines[upto])
         THEN Append(LinesWhere(Keep, lines, upto - 1), upto)
         ELSE LinesWhere(Keep, lines, upto - 1)

\* tok is a finite decimal literal, the shape of an epoch in seconds
DecimalLiteral(tok) == ParsesAsNumber(tok) /\ FloatOf(tok).val.k = "fin"

\* the integer part of a decimal literal as written, sign included
WrittenWhole(tok) ==
    LET signed  == tok[1] \in {"+", "-"}
        body    == IF signed THEN Tail(tok) ELSE tok
        dots    == {i \in 1..Len(body) : body[i] = "."}
        dot     == IF dots = {} THEN Len(body) + 1 ELSE CHOOSE i \in dots : TRUE
        whole   == StripLeadingZeros([i \in 1..(dot - 1) |-> DigitVal(body[i])])
    IN  [neg |-> signed /\ tok[1] = "-" /\ whole # <<>>, w |-> whole]

\* a speed that is a non-negative real number
NonNegativeReal(x) == x.k = "fin" /\ ~(x.neg /\ (x.w # <<>> \/ x.f # <<>>))

\* a line read_log is said to skip: blank, sentinel, fewer than 3 fields, or
\* a field[0] or field[2] that is not a usable number
UnusableLine(raw) ==
    \/ Strip(raw) = <<>>
    \/ StartsWith(Strip(raw), MonitorStart)
    \/ StartsWith(Strip(raw), IostatTag)
    \/ Len(Split(raw)) < 3
    \/ ~DecimalLiteral(Field(raw, 0))
    \/ ~DecimalLiteral(Field(raw, 2))
    \/ ~InDatetimeRange(IntOf(FloatOf(Field(raw, 0)).val).val)

\* plot ran to its end
RenderCompleted == plotCalls = 1 /\ exc.at # "plot"

(***************************************************************************)
(* Properties.                                                             *)
(***************************************************************************)
\* C1: for every input file read_log returns, and the series it returns has
\* exactly one sample for each line with 3 or more fields whose field[0] and
\* field[2] parse as numbers, none for any other line, in file order, each
\* sample computed from field[0] and field[2] of its line alone.
C1_OneSamplePerNumericLine ==
    /\ ~RaisedOnContent
    /\ ReadReturned =>
         /\ readResult[1].src = LinesWhere(NumericLine, file, Len(file))
         /\ \A i \in 1..Len(readResult[1].src) :
               LET raw == file[readResult[1].src[i]]
               IN  /\ readResult[1].ts[i] =
                        UtcFromTimestamp(IntOf(FloatOf(Field(raw, 0)).val).val)
                   /\ readResult[1].mbps[i] = FloatOf(Field(raw, 2)).val

\* C2: no content of a line makes read_log raise, and a line that is blank,
\* a sentinel, short of 3 fields, or whose field[0] or field[2] is not a
\* usable number (inf, nan, an epoch outside the datetime range) is skipped:
\* it contributes no sample.
C2_UnusableLinesSkipped ==
    /\ ~RaisedOnContent
    /\ \A i \in 1..Len(tsSrc) : ~UnusableLine(file[tsSrc[i]])
    /\ \A i \in 1..Len(mbpsSrc) : ~UnusableLine(file[mbpsSrc[i]])

\* C3: the timestamp sequence and the speed sequence have equal length at the
\* start of read_log, after every line and on return, and their elements at
\* the same index come from the same line of the file.
C3_ParallelSequences ==
    /\ Len(ts) = Len(mbps)
    /\ tsSrc = mbpsSrc
    /\ Len(tsSrc) = Len(ts)
    /\ \A i \in 1..Len(tsSrc) :
          /\ tsSrc[i] \in 1..lineNo
          /\ ts[i] = LineOutcome(file[tsSrc[i]]).t
          /\ mbps[i] = LineOutcome(file[tsSrc[i]]).v
    /\ Len(mainTs) = Len(mainMbps)
    /\ ReadReturned =>
          /\ mainTs = ts
          /\ mainMbps = mbps
          /\ Len(readResult[1].ts) = Len(readResult[1].mbps)

\* a run that appended a sample for one line and skipped another
C3_Witness ==
    /\ pc = "check"
    /\ Len(file) = 2
    /\ Len(mainTs) = 1
    /\ Len(mainMbps) = 1

\* C4: main returns 1 when the number of arguments after the program name is
\* not 2, without opening the log; it returns 1 when the series is empty; it
\* returns 0 exactly when the argument count is right, the series is not
\* empty and the render completed; it returns nothing else.
C4_ExitCode ==
    /\ returns \in {<<>>, <<0>>, <<1>>}
    /\ argc - 1 # 2 => opens = 0
    /\ (pc = "exit" /\ argc - 1 # 2) => returns = <<1>>
    /\ (pc = "exit" /\ ReadReturned /\ readResult[1].ts = <<>>) => returns = <<1>>
    /\ pc = "exit" =>
          (returns = <<0>> <=>
               /\ argc - 1 = 2
               /\ ReadReturned
               /\ readResult[1].ts # <<>>
               /\ RenderCompleted)
    /\ pc # "exit" => returns = <<>>

\* a run that returned 0
C4_Witness == pc = "exit" /\ returns = <<0>> /\ argc = 3 /\ Len(mainTs) = 2

\* C5: with an empty series main writes the no-data message to stderr,
\* returns 1, never calls plot, writes no output file and prints nothing to
\* stdout; usage and no-data go to stderr only; the confirmation is the only
\* thing printed to stdout, and only on the way to returning 0.
C5_EmptySeriesPath ==
    /\ (ReadReturned /\ readResult[1].ts = <<>>) =>
          /\ plotCalls = 0
          /\ ~outFile
          /\ stdout = <<>>
          /\ pc = "exit" => (stderr = <<NoDataMsg>> /\ returns = <<1>>)
    /\ stdout \in {<<>>, <<WroteMsg>>}
    /\ stdout # <<>> => (pc = "exit" /\ returns = <<0>> /\ stderr = <<>>)
    /\ stderr \in {<<>>, <<UsageMsg>>, <<NoDataMsg>>}
    /\ stderr = <<UsageMsg>> => argc # 3
    /\ stderr = <<NoDataMsg>> => (ReadReturned /\ readResult[1].ts = <<>>)

\* a log holding only a "monitor start" line, after main returned
C5_Witness ==
    /\ pc = "exit"
    /\ Len(file) = 1
    /\ StartsWith(file[1], MonitorStart)
    /\ stderr = <<NoDataMsg>>
    /\ returns = <<1>>

\* C6: the log file is closed on every way out of read_log: after the end of
\* the file, whatever lines were skipped, and when an exception leaves the
\* loop.
C6_FileClosedAfterRead ==
    /\ fileOpen => pc = "loop"
    /\ ReadReturned => ~fileOpen
    /\ exc # NoExc => ~fileOpen

\* an exception left the loop of read_log after the file had been opened
C6_Witness == pc = "raised" /\ RaisedOnContent /\ opens = 1 /\ lineNo = 2

\* C7: a failure of open or of the render propagates out of main: main
\* returns neither 0 nor 1, nothing is retried and the confirmation is not
\* printed.
C7_FailuresPropagate ==
    exc.at \in {"open", "plot"} =>
        /\ pc = "raised"
        /\ returns = <<>>
        /\ stdout = <<>>
        /\ opens = 1
        /\ plotCalls = (IF exc.at = "plot" THEN 1 ELSE 0)

\* the render failed
C7_Witness == exc.at = "plot" /\ pc = "raised" /\ plotCalls = 1

\* C8: every speed in the series is a non-negative real number: none is
\* negative, infinite or not-a-number.
C8_SpeedsNonNegativeReal ==
    /\ \A i \in 1..Len(mbps) : NonNegativeReal(mbps[i])
    /\ \A i \in 1..Len(mainMbps) : NonNegativeReal(mainMbps[i])

\* C9: one run reads the log to its end and closes it before the emptiness
\* check, calls plot at most once and only with the non-empty series the
\* read returned, unchanged, and prints the confirmation only after plot
\* has completed.
C9_StepOrder ==
    /\ opens <= 1
    /\ plotCalls <= 1
    /\ Len(plotted) = plotCalls
    /\ Len(stdout) <= 1
    /\ pc \in {"check", "plot", "print"} =>
          /\ ReadReturned
          /\ ~fileOpen
          /\ lineNo = Len(file)
          /\ mainTs = readResult[1].ts
          /\ mainMbps = readResult[1].mbps
    /\ plotCalls = 1 =>
          /\ ReadReturned
          /\ readResult[1].ts # <<>>
          /\ plotted[1] = [ts |-> readResult[1].ts, mbps |-> readResult[1].mbps]
    /\ stdout # <<>> => (RenderCompleted /\ outFile)

\* a run that read two samples, rendered them and printed the confirmation
C9_Witness ==
    /\ pc = "exit"
    /\ stdout = <<WroteMsg>>
    /\ plotCalls = 1
    /\ Len(plotted[1].ts) = 2

\* C10: a field[0] written as an integer or as a decimal fraction is
\* accepted, its value is truncated toward zero to whole seconds, so that
\* two lines whose field[0] differ only in the fraction have equal
\* timestamps, and the timestamps are stored in file order.
C10_WholeSecondTruncation ==
    /\ \A i \in 1..Len(ts) :
          ts[i] = UtcFromTimestamp(WrittenWhole(Field(file[tsSrc[i]], 0)))
    /\ \A i, j \in 1..Len(ts) :
          WrittenWhole(Field(file[tsSrc[i]], 0)) = WrittenWhole(Field(file[tsSrc[j]], 0))
              => ts[i] = ts[j]
    /\ \A i, j \in 1..Len(tsSrc) : i < j => tsSrc[i] < tsSrc[j]
    /\ ~RaisedOnContent
    /\ \A n \in 1..lineNo :
          (/\ Len(Split(file[n])) >= 3
           /\ DecimalLiteral(Field(file[n], 0))
           /\ ParsesAsNumber(Field(file[n], 2)))
              => \E i \in 1..Len(tsSrc) : tsSrc[i] = n

====
